---------------------------- MODULE Spec2Model ----------------------------
(***************************************************************************)
(* A model of timeline.py: the Timeline orchestrator that turns time-      *)
(* stamped records into sized Items, derives an axis Scale, materialises   *)
(* Nodes and sequences LayerRenderer -> Resolver -> LayerRenderer.         *)
(*                                                                         *)
(* Python objects that are shared by reference are modelled as a heap:     *)
(* `scales` holds every TimeScale object and `labellas` every resolver     *)
(* option dict; a Timeline stores a reference into them.  Reference 0 is   *)
(* the object created once at import time inside TIMELINE_DEFAULT_OPTIONS; *)
(* reference k > 0 is an object the caller passed to the k-th Timeline.    *)
(***************************************************************************)
EXTENDS Integers, Sequences, FiniteSets, TLC

VARIABLES
    tls,        \* the Timeline instances constructed so far, in order
    scales,     \* heap of TimeScale objects: ref -> [domain, range]
    labellas,   \* heap of resolver option dicts: ref -> [direction]
    last        \* the last call made and what it produced

vars == <<tls, scales, labellas, last>>

----------------------------------------------------------------------------
(* Bounds of the model *)

MaxTimelines == 2
MaxItems == 2
MaxIndex == 4
MaxDay == 1

(* Program constants *)

DEFAULT_WIDTH == 50
TEXT_WIDTH_MULTI == 2
TEXT_HEIGHT == 20
DOT_HEIGHT == 13
DefaultInitialWidth == 400
DefaultInitialHeight == 400
MarginLeft == 20
MarginRight == 20
MarginTop == 20
MarginBottom == 20
PadLeft == 2
PadRight == 2
PadTop == 3
PadBottom == 2
LayerGap == 60

----------------------------------------------------------------------------
(* Optional values: Python's None against a present value *)

Some(v) == [some |-> TRUE, v |-> v]
NoInt == [some |-> FALSE, v |-> -1]
NoText == [some |-> FALSE, v |-> ""]

\* Python truthiness of a text value: None and "" are both falsy
Truthy(text) == text.some /\ Len(text.v) > 0

Directions == {"left", "right", "up", "down"}

\* Maximum of a non-empty set of integers
SetMax(S) == CHOOSE m \in S : \A k \in S : k <= m
SetMin(S) == CHOOSE m \in S : \A k \in S : m <= k

----------------------------------------------------------------------------
(* Time values.  kind "date" is a bare datetime.date (tod unused, 0),      *)
(* kind "time" a bare datetime.time (day unused, 0), kind "datetime" a     *)
(* datetime.datetime.  A day has TodPerDay instants.                       *)

TodPerDay == MaxDay + 2
Today == MaxDay

Date(day) == [kind |-> "date", day |-> day, tod |-> 0]
Time(tod) == [kind |-> "time", day |-> 0, tod |-> tod]
DateTime(day, tod) == [kind |-> "datetime", day |-> day, tod |-> tod]

\* isinstance(t, datetime.date): datetime.datetime is a subclass of
\* datetime.date, so both kinds are instances
IsInstanceDate(t) == t.kind \in {"date", "datetime"}
IsInstanceTime(t) == t.kind = "time"

\* datetime.datetime.combine(date, time): takes the date part of its first
\* argument (the time of day of a datetime passed as `date` is ignored)
Combine(day, tod) == DateTime(day, tod)

NormalizeTime(t) ==
    IF IsInstanceDate(t) THEN Combine(t.day, 0)
    ELSE IF IsInstanceTime(t) THEN Combine(Today, t.tod)
    ELSE t

----------------------------------------------------------------------------
(* Items *)

\* Item.get_text_dimensions
GetTextDimensions(text) == <<Len(text.v) * TEXT_WIDTH_MULTI, TEXT_HEIGHT>>

\* Item.__init__ as it would be if the height followed the text alone
ItemInitTextHeight(time, width, text, data) ==
    [time |-> time, text |-> text, data |-> data,
     width |-> IF ~width.some /\ Truthy(text)
               THEN GetTextDimensions(text)[1] ELSE width.v,
     height |-> IF Truthy(text) THEN TEXT_HEIGHT ELSE DOT_HEIGHT]

\* Item.__init__: `width` is an optional integer, `text` an optional string
ItemInit(time, width, text, data) ==
    IF ~width.some /\ Truthy(text)
    THEN [time |-> time, text |-> text, data |-> data,
          width |-> GetTextDimensions(text)[1],
          height |-> GetTextDimensions(text)[2]]
    ELSE [time |-> time, text |-> text, data |-> data,
          width |-> width.v, height |-> DOT_HEIGHT]

\* Timeline.textFn with the default accessor: d["text"] if present else None
TextFn(d) == IF d.text.some THEN d.text ELSE NoText

\* d.get("width", default)
GetWidth(d, default) == IF d.width.some THEN d.width ELSE default

\* one iteration of the loop of Timeline.parse_items: the record as the
\* loop leaves it (its time field overwritten)
ParseRecord(d) ==
    IF IsInstanceDate(d.time) \/ IsInstanceTime(d.time)
    THEN [d EXCEPT !.time = NormalizeTime(d.time)]
    ELSE d

\* Timeline.parse_items: the Item list; Item.data is the index of the record
ParseItems(dicts) ==
    [k \in 1..Len(dicts) |->
        LET d == ParseRecord(dicts[k])
            text == TextFn(d)
            width == IF Truthy(text) THEN GetWidth(d, NoInt)
                     ELSE GetWidth(d, Some(DEFAULT_WIDTH))
        IN ItemInit(d.time, width, text, k)]

\* the caller's records after parse_items has run over them
ParsedDicts(dicts) == [k \in 1..Len(dicts) |-> ParseRecord(dicts[k])]

\* equal_heights with min() in place of max()
EqualHeightsMin(items) ==
    LET minheight == SetMin({items[k].height : k \in 1..Len(items)})
    IN [k \in 1..Len(items) |->
            IF Truthy(items[k].text)
            THEN [items[k] EXCEPT !.height = minheight]
            ELSE items[k]]

\* Timeline.equal_heights (the list is non-empty: max() of nothing raises)
EqualHeights(items) ==
    LET maxheight == SetMax({items[k].height : k \in 1..Len(items)})
    IN [k \in 1..Len(items) |->
            IF Truthy(items[k].text)
            THEN [items[k] EXCEPT !.height = maxheight]
            ELSE items[k]]

\* rotate_items with two assignments in sequence in place of the tuple swap
RotateItemsSequential(direction, items) ==
    IF direction \in {"left", "right"}
    THEN [k \in 1..Len(items) |->
            IF Truthy(items[k].text)
            THEN [items[k] EXCEPT !.height = items[k].width]
            ELSE items[k]]
    ELSE items

\* Timeline.rotate_items
RotateItems(direction, items) ==
    IF direction \in {"left", "right"}
    THEN [k \in 1..Len(items) |->
            IF Truthy(items[k].text)
            THEN [items[k] EXCEPT !.height = items[k].width,
                                  !.width = items[k].height]
            ELSE items[k]]
    ELSE items

----------------------------------------------------------------------------
(* The Scale collaborator (scale.py): a linear map from its domain onto    *)
(* its range, extrapolating outside the domain.                            *)

\* a datetime as a number of instants
TimeToNum(t) == t.day * TodPerDay + t.tod

\* TimeScale(): the state of a freshly created scale object
NewScale == [domain |-> <<0, 1>>, range |-> <<0, 1>>]

\* d3_extent(data, timeFn): [min, max] of the records' time values
D3Extent(dicts) ==
    LET ts == {TimeToNum(dicts[k].time) : k \in 1..Len(dicts)}
    IN <<SetMin(ts), SetMax(ts)>>

\* scale.nice(): the domain rounded outward to whole days
Nice(dom) ==
    <<(dom[1] \div TodPerDay) * TodPerDay,
      ((dom[2] + TodPerDay - 1) \div TodPerDay) * TodPerDay>>

\* scale(x)
ScaleApply(s, x) ==
    IF s.domain[2] = s.domain[1] THEN s.range[1]
    ELSE s.range[1]
         + ((x - s.domain[1]) * (s.range[2] - s.range[1]))
           \div (s.domain[2] - s.domain[1])

----------------------------------------------------------------------------
(* Timeline: axis set-up *)

\* Timeline.getInnerDims
GetInnerDims(opts) ==
    <<opts.initialWidth - MarginLeft - MarginRight,
      opts.initialHeight - MarginTop - MarginBottom>>

\* Timeline.init_axis: the state it leaves the Timeline's scale object in.
\* `data` are the caller's records, already rewritten by parse_items.
InitAxis(opts, data) ==
    LET dom == IF opts.domain.some THEN opts.domain.v
               ELSE Nice(D3Extent(data))
        inner == GetInnerDims(opts)
    IN [domain |-> dom,
        range |-> IF opts.direction \in {"left", "right"}
                  THEN <<0, inner[2]>> ELSE <<0, inner[1]>>]

----------------------------------------------------------------------------
(* Nodes *)

\* Node(idealPos, width, data=it): a node before layout (node.py)
NodeInit(idealPos, width, data) ==
    [idealPos |-> idealPos, currentPos |-> idealPos, width |-> width,
     data |-> data, w |-> 0, h |-> 0,
     x |-> 0, y |-> 0, dx |-> 0, dy |-> 0, layer |-> 0]

\* Timeline.timePos: the record's time through the Timeline's scale object,
\* in the state that object is in when the call is made
TimePos(t, d) == ScaleApply(scales[t.scale], TimeToNum(d.time))

\* get_nodes taking node.width from node.w after the swap
PadNodeWidthFromW(direction, node, it) ==
    LET w == it.width + PadLeft + PadRight
        h == it.height + PadTop + PadBottom
    IN IF direction \in {"left", "right"}
       THEN [node EXCEPT !.h = w, !.w = h, !.width = h]
       ELSE [node EXCEPT !.w = w, !.h = h, !.width = w]

\* the body of the second loop of Timeline.get_nodes for one node
PadNode(direction, node, it) ==
    LET w == it.width + PadLeft + PadRight
        h == it.height + PadTop + PadBottom
    IN IF direction \in {"left", "right"}
       THEN [node EXCEPT !.h = w, !.w = h, !.width = w]
       ELSE [node EXCEPT !.w = w, !.h = h, !.width = w]

\* Timeline.get_nodes
GetNodes(t) ==
    [k \in 1..Len(t.items) |->
        LET it == t.items[k]
        IN PadNode(t.direction,
                   NodeInit(TimePos(t, t.dicts[it.data]), it.width, k), it)]

----------------------------------------------------------------------------
(* The LayerRenderer and Resolver collaborators *)

\* Renderer.layout(nodes): every node is put on the first layer and its
\* connector geometry is taken from the position it has now
LayoutNode(direction, nodeHeight, layerGap, n) ==
    IF direction \in {"left", "right"}
    THEN [n EXCEPT !.x = IF direction = "left" THEN 0 - layerGap ELSE layerGap,
                   !.y = n.currentPos,
                   !.dx = nodeHeight, !.dy = n.width, !.layer = 0]
    ELSE [n EXCEPT !.x = n.currentPos,
                   !.y = IF direction = "up" THEN 0 - layerGap ELSE layerGap,
                   !.dx = n.width, !.dy = nodeHeight, !.layer = 0]

Layout(direction, nodeHeight, layerGap, nodes) ==
    [k \in 1..Len(nodes) |->
        LayoutNode(direction, nodeHeight, layerGap, nodes[k])]

\* the order in which the resolver visits nodes: by ideal position, then
\* by list position
Before(nodes, j, k) ==
    \/ nodes[j].idealPos < nodes[k].idealPos
    \/ (nodes[j].idealPos = nodes[k].idealPos /\ j < k)

\* two nodes centred d apart do not overlap when d is at least half the
\* sum of their widths
MinGap(a, b) == (a.width + b.width + 1) \div 2

\* Force.compute: every node stays at its ideal position unless a node
\* before it would overlap it, and is then moved just clear of it
RECURSIVE ResolvedPos(_, _)
ResolvedPos(nodes, k) ==
    LET prev == {j \in 1..Len(nodes) : Before(nodes, j, k)}
    IN SetMax({nodes[k].idealPos}
              \cup {ResolvedPos(nodes, j) + MinGap(nodes[j], nodes[k])
                    : j \in prev})

ForceCompute(nodes) ==
    [k \in 1..Len(nodes) |->
        [nodes[k] EXCEPT !.currentPos = ResolvedPos(nodes, k)]]

----------------------------------------------------------------------------
(* Timeline: the layout pipeline *)

\* the cross-axis extent Timeline.compute hands to the Renderer
NodeHeight(direction, nodes) ==
    IF direction \in {"left", "right"}
    THEN SetMax({nodes[k].w : k \in 1..Len(nodes)})
    ELSE SetMax({nodes[k].h : k \in 1..Len(nodes)})

\* compute without the layout of the resolved list
ComputeSingleLayout(t) ==
    LET nodes == GetNodes(t)
        nodeHeight == NodeHeight(t.direction, nodes)
        laid == Layout(t.direction, nodeHeight, LayerGap, nodes)
        force == labellas[t.labella]
        newnodes == ForceCompute(laid)
    IN [trace |-> <<"get_nodes", "layout", "force">>,
        resolverDir |-> force.direction,
        nodes |-> newnodes]

\* Timeline.compute: the calls it makes, in order, and the list it returns
Compute(t) ==
    LET nodes == GetNodes(t)
        nodeHeight == NodeHeight(t.direction, nodes)
        laid == Layout(t.direction, nodeHeight, LayerGap, nodes)
        force == labellas[t.labella]
        newnodes == ForceCompute(laid)
        final == Layout(t.direction, nodeHeight, LayerGap, newnodes)
    IN [trace |-> <<"get_nodes", "layout", "force", "layout">>,
        resolverDir |-> force.direction,
        nodes |-> final]

\* Timeline.forceCompute
ForceComputeOnly(t) ==
    LET force == labellas[t.labella]
        nodes == GetNodes(t)
    IN [trace |-> <<"get_nodes", "force">>,
        resolverDir |-> force.direction,
        nodes |-> ForceCompute(nodes)]

----------------------------------------------------------------------------
(* Timeline: anchor positions and style accessors *)

\* Timeline.nodePos.  Coordinates are returned doubled, so that the halves
\* d.dy / 2 and d.dx / 2 stay integers.  A direction that matches no branch
\* falls off the end of the function, which returns None.
NodePos(direction, d) ==
    IF direction = "right"
    THEN [outcome |-> "return", pos |-> <<2 * d.x, 2 * d.y - d.dy>>]
    ELSE IF direction = "left"
    THEN [outcome |-> "return",
          pos |-> <<2 * (d.x - d.w + d.dx), 2 * d.y - d.dy>>]
    ELSE IF direction = "up"
    THEN [outcome |-> "return", pos |-> <<2 * d.x - d.dx, 2 * d.y>>]
    ELSE IF direction = "down"
    THEN [outcome |-> "return", pos |-> <<2 * d.x - d.dx, 2 * d.y>>]
    ELSE [outcome |-> "None", pos |-> <<>>]

\* A style option is a constant (vals = <<c>>), a list (vals its elements), or
\* a function of the item data (here: the accessor lambda d: d["color"])
Const(c) == [kind |-> "const", vals |-> <<c>>]
List(vals) == [kind |-> "list", vals |-> vals]
Func == [kind |-> "func", vals |-> <<>>]

\* d3_functor(v)(thedict): a callable is called, anything else is constant
D3Functor(opt, thedict) ==
    IF opt.kind = "func" THEN thedict.color ELSE opt.vals[1]

\* colorFunc clamping the index to the list in place of wrapping it
ColorFuncClamped(t, colorName, thedict, i) ==
    LET opt == t.colors[colorName]
        n == Len(opt.vals)
    IN IF opt.kind = "list"
       THEN IF n = 0
            THEN [outcome |-> "raise", via |-> "list", color |-> ""]
            ELSE [outcome |-> "return", via |-> "list",
                  color |-> opt.vals[IF i < n THEN i + 1 ELSE n]]
       ELSE [outcome |-> "return", via |-> "functor",
             color |-> D3Functor(opt, thedict)]

\* Timeline.colorFunc
ColorFunc(t, colorName, thedict, i) ==
    LET opt == t.colors[colorName]
    IN IF opt.kind = "list"
       THEN IF Len(opt.vals) = 0
            THEN [outcome |-> "raise", via |-> "list", color |-> ""]
            ELSE [outcome |-> "return", via |-> "list",
                  color |-> opt.vals[(i % Len(opt.vals)) + 1]]
       ELSE [outcome |-> "return", via |-> "functor",
             color |-> D3Functor(opt, thedict)]

\* Timeline.dotColor, linkColor, labelBgColor, labelTextColor, borderColor
DotColor(t, thedict, i) == ColorFunc(t, "dotColor", thedict, i)
LinkColor(t, thedict, i) == ColorFunc(t, "linkColor", thedict, i)
LabelBgColor(t, thedict, i) == ColorFunc(t, "labelBgColor", thedict, i)
LabelTextColor(t, thedict, i) == ColorFunc(t, "labelTextColor", thedict, i)
BorderColor(t, thedict, i) == ColorFunc(t, "borderColor", thedict, i)

Channels ==
    {"dotColor", "linkColor", "labelBgColor", "labelTextColor", "borderColor"}

\* a call of the accessor method named `channel`
CallChannel(t, channel, thedict, i) ==
    CASE channel = "dotColor" -> DotColor(t, thedict, i)
      [] channel = "linkColor" -> LinkColor(t, thedict, i)
      [] channel = "labelBgColor" -> LabelBgColor(t, thedict, i)
      [] channel = "labelTextColor" -> LabelTextColor(t, thedict, i)
      [] channel = "borderColor" -> BorderColor(t, thedict, i)

\* the style entries of TIMELINE_DEFAULT_OPTIONS
DefaultColors ==
    [c \in Channels |->
        CASE c = "dotColor" -> Const("#222")
          [] c = "linkColor" -> Const("#222")
          [] c = "labelBgColor" -> Const("#222")
          [] c = "labelTextColor" -> Const("#fff")
          [] c = "borderColor" -> Const("#000")]

----------------------------------------------------------------------------
(* State and operations *)

\* what `last` holds when nothing of a kind was produced
NoCall ==
    [op |-> "none", tl |-> 0, outcome |-> "none", trace |-> <<>>,
     nodes |-> <<>>, resolverDir |-> "", pos |-> <<>>,
     channel |-> "", arg |-> [color |-> ""], index |-> 0,
     via |-> "", color |-> ""]

\* the import of the module: TIMELINE_DEFAULT_OPTIONS is built once, with
\* one TimeScale() object and one empty "labella" dict (reference 0)
Init ==
    /\ tls = <<>>
    /\ scales = (0 :> NewScale)
    /\ labellas = (0 :> [direction |-> "unset"])
    /\ last = NoCall

\* Timeline.__init__(dicts, options) on a non-empty list of records.
\* options.ownScale / options.ownLabella tell whether the caller's options
\* carry a "scale" / "labella" entry (a fresh object) or leave the default.
TimelineInit(dicts, options) ==
    LET id == Len(tls) + 1
        sref == IF options.ownScale THEN id ELSE 0
        lref == IF options.ownLabella THEN id ELSE 0
        parsed == ParseItems(dicts)
        equalized == EqualHeights(parsed)
        items == RotateItems(options.direction, equalized)
        data == ParsedDicts(dicts)
        axis == InitAxis(options, data)
    IN /\ Len(dicts) >= 1
       /\ labellas' = (lref :> [direction |-> options.direction]) @@ labellas
       /\ scales' = (sref :> axis) @@ scales
       /\ tls' = Append(tls,
                    [direction |-> options.direction,
                     scale |-> sref, labella |-> lref,
                     colors |-> options.colors,
                     items |-> items, dicts |-> data,
                     \* history, for stating the claims
                     input |-> dicts, parsed |-> parsed,
                     equalized |-> equalized, axis |-> axis])
       /\ last' = [NoCall EXCEPT !.op = "init", !.tl = id,
                                 !.outcome = "return"]

\* Timeline.__init__([], options): line 95 has written the direction into
\* the "labella" dict before equal_heights raises on the empty item list
TimelineInitEmpty(options) ==
    /\ ~options.ownLabella
    /\ labellas' = [labellas EXCEPT ![0] = [direction |-> options.direction]]
    /\ last' = [NoCall EXCEPT !.op = "init", !.outcome = "raise"]
    /\ UNCHANGED <<tls, scales>>

GetNodesOp(id) ==
    /\ last' = [NoCall EXCEPT !.op = "get_nodes", !.tl = id,
                              !.outcome = "return",
                              !.trace = <<"get_nodes">>,
                              !.nodes = GetNodes(tls[id])]
    /\ UNCHANGED <<tls, scales, labellas>>

ComputeOp(id) ==
    LET r == Compute(tls[id])
    IN /\ last' = [NoCall EXCEPT !.op = "compute", !.tl = id,
                                 !.outcome = "return", !.trace = r.trace,
                                 !.nodes = r.nodes,
                                 !.resolverDir = r.resolverDir]
       /\ UNCHANGED <<tls, scales, labellas>>

ForceComputeOp(id) ==
    LET r == ForceComputeOnly(tls[id])
    IN /\ last' = [NoCall EXCEPT !.op = "forceCompute", !.tl = id,
                                 !.outcome = "return", !.trace = r.trace,
                                 !.nodes = r.nodes,
                                 !.resolverDir = r.resolverDir]
       /\ UNCHANGED <<tls, scales, labellas>>

\* nodePos on the k-th node that compute() returns
NodePosOp(id, k) ==
    LET r == NodePos(tls[id].direction, Compute(tls[id]).nodes[k])
    IN /\ last' = [NoCall EXCEPT !.op = "nodePos", !.tl = id,
                                 !.outcome = r.outcome, !.pos = r.pos,
                                 !.index = k]
       /\ UNCHANGED <<tls, scales, labellas>>

ColorOp(id, channel, thedict, i) ==
    LET r == CallChannel(tls[id], channel, thedict, i)
    IN /\ last' = [NoCall EXCEPT !.op = "color", !.tl = id,
                                 !.outcome = r.outcome, !.channel = channel,
                                 !.arg = thedict, !.index = i,
                                 !.via = r.via, !.color = r.color]
       /\ UNCHANGED <<tls, scales, labellas>>

----------------------------------------------------------------------------
(* Inputs *)

Rec(time, text, width) == [time |-> time, text |-> text, width |-> width]

NoDomain == [some |-> FALSE, v |-> <<0, 0>>]

\* the four supported directions and one that is not
AllDirections == Directions \cup {"diagonal"}

Options(dirs, own, domains, sizes, colors) ==
    {[direction |-> d, ownScale |-> s, ownLabella |-> l, domain |-> dom,
      initialWidth |-> z[1], initialHeight |-> z[2], colors |-> c] :
        d \in dirs, s \in own, l \in own, dom \in domains, z \in sizes,
        c \in colors}

DefaultSize == <<DefaultInitialWidth, DefaultInitialHeight>>
LargeSize == <<2 * DefaultInitialWidth, DefaultInitialHeight + 200>>

\* non-empty lists of at most MaxItems records of a pool
Lists(pool) == UNION {[1..n -> pool] : n \in 1..MaxItems}

----------------------------------------------------------------------------
(* Specification Spec: several Timelines side by side, each built with or  *)
(* without its own "scale" and "labella" option                            *)

\* two callers' inputs: records and canvas size
Inputs ==
    {[dicts |-> <<Rec(Date(0), NoText, NoInt),
                  Rec(Date(MaxDay), Some("Jan"), NoInt)>>,
      size |-> DefaultSize],
     [dicts |-> <<Rec(Time(1), Some("Noon"), NoInt)>>,
      size |-> LargeSize]}

SharedDirections == {"right", "up", "diagonal"}

SharedOptions(size) ==
    Options(SharedDirections, BOOLEAN, {NoDomain}, {size}, {DefaultColors})

EmptyOptions ==
    Options(SharedDirections, {FALSE}, {NoDomain}, {DefaultSize},
            {DefaultColors})

Next ==
    \/ \E in \in Inputs : \E o \in SharedOptions(in.size) :
          Len(tls) < MaxTimelines /\ TimelineInit(in.dicts, o)
    \/ \E o \in EmptyOptions : TimelineInitEmpty(o)
    \/ \E id \in 1..Len(tls) : ComputeOp(id)
    \/ \E id \in 1..Len(tls) : ForceComputeOp(id)
    \/ \E id \in 1..Len(tls) : \E k \in 1..Len(tls[id].items) :
          NodePosOp(id, k)

Spec == Init /\ [][Next]_vars

----------------------------------------------------------------------------
(* Specification SpecItems: one Timeline over every short list of records  *)
(* of a pool that varies text, width and the type of the time value        *)

ItemPool ==
    {Rec(Date(0), NoText, NoInt), Rec(Date(0), NoText, Some(30)),
     Rec(Date(0), Some("Jan"), NoInt), Rec(Date(0), Some("March"), Some(30)),
     Rec(Date(0), Some(""), NoInt),
     Rec(Time(1), NoText, NoInt),
     Rec(DateTime(MaxDay, 1), NoText, NoInt)}

ItemOptions ==
    Options(AllDirections, {FALSE}, {NoDomain}, {DefaultSize},
            {DefaultColors})
    \cup Options({"down"}, {TRUE}, {Some(<<0, TodPerDay>>)}, {LargeSize},
                 {DefaultColors})

NextItems ==
    \/ \E dicts \in Lists(ItemPool), o \in ItemOptions :
          Len(tls) < 1 /\ TimelineInit(dicts, o)
    \/ \E id \in 1..Len(tls) : GetNodesOp(id)
    \/ \E id \in 1..Len(tls) : ComputeOp(id)
    \/ \E id \in 1..Len(tls) : ForceComputeOp(id)
    \/ \E id \in 1..Len(tls) : \E k \in 1..Len(tls[id].items) :
          NodePosOp(id, k)

SpecItems == Init /\ [][NextItems]_vars

----------------------------------------------------------------------------
(* Specification SpecColor: one Timeline whose style options are the       *)
(* defaults with one channel overridden by a list, a function or another   *)
(* constant                                                                *)

Palettes == {<<"red">>, <<"red", "green">>, <<"red", "green", "blue">>}

StyleValues == {List(p) : p \in Palettes} \cup {Func, Const("#abc")}

ColorSettings ==
    {DefaultColors}
    \cup {[DefaultColors EXCEPT ![c] = v] : c \in Channels, v \in StyleValues}

ColorOptions ==
    Options({"right"}, {FALSE}, {NoDomain}, {DefaultSize}, ColorSettings)

ColorData == <<Rec(Date(0), Some("Jan"), NoInt)>>

\* the item data handed to an accessor
ColorArgs == {[color |-> "c1"], [color |-> "c2"]}

NextColor ==
    \/ \E o \in ColorOptions : Len(tls) < 1 /\ TimelineInit(ColorData, o)
    \/ \E id \in 1..Len(tls), c \in Channels, d \in ColorArgs,
          i \in 0..MaxIndex : ColorOp(id, c, d, i)

SpecColor == Init /\ [][NextColor]_vars

----------------------------------------------------------------------------
(* Properties *)

Built == 1..Len(tls)
Textual(it) == Truthy(it.text)

\* the coordinate of a laid-out node that runs along the time axis
AlongAxis(direction, n) ==
    IF direction \in {"left", "right"} THEN n.y ELSE n.x

C2_ScaleFixed ==
    \A id \in Built : scales[tls[id].scale] = tls[id].axis

\* the size parse_items and Item.__init__ give the item of record d,
\* according to the table of the claim C3
TableSize(d) ==
    LET text == Truthy(TextFn(d))
    IN IF text /\ ~d.width.some THEN <<Len(d.text.v) * 2, 20>>
       ELSE IF text THEN <<d.width.v, 20>>
       ELSE IF ~d.width.some THEN <<50, 13>>
       ELSE <<d.width.v, 13>>

\* C3 as stated: the Item built for a record has the size of the table,
\* height 20 whenever text is present.
C3_SizeTable ==
    \A id \in Built : \A k \in 1..Len(tls[id].input) :
        <<tls[id].parsed[k].width, tls[id].parsed[k].height>>
            = TableSize(tls[id].input[k])

\* C3 amended: as the table, except that a record with text and a given
\* width gets height 13: (len(text)*2, 20) for text without width,
\* (given width, 13) for text with width, (50, 13) for no text and no width,
\* (given width, 13) for no text with width.
C3_SizeTableAmended ==
    \A id \in Built : \A k \in 1..Len(tls[id].input) :
        LET d == tls[id].input[k]
            it == tls[id].parsed[k]
            text == Truthy(TextFn(d))
        IN <<it.width, it.height>> =
              IF text /\ ~d.width.some THEN <<Len(d.text.v) * 2, 20>>
              ELSE IF text THEN <<d.width.v, 13>>
              ELSE IF ~d.width.some THEN <<50, 13>>
              ELSE <<d.width.v, 13>>

\* C3 witness: an item built from a record with text and a given width,
\* beside one built from text alone
C3_Witness ==
    \E id \in Built : \E j, k \in 1..Len(tls[id].input) :
        /\ Truthy(tls[id].input[k].text) /\ tls[id].input[k].width.some
        /\ tls[id].parsed[k].height = 13
        /\ Truthy(tls[id].input[j].text) /\ ~tls[id].input[j].width.some
        /\ tls[id].parsed[j].height = 20

\* C4: nodePos on a Timeline whose direction is none of left, right, up,
\* down raises; it never returns.
C4_NodePosRaises ==
    (last.op = "nodePos" /\ tls[last.tl].direction \notin Directions)
        => last.outcome = "raise"

\* C5: after the equal-heights pass every item with text has the largest
\* height any item with text had before it, and every item without text
\* keeps its height and width.
C5_EqualHeights ==
    \A id \in Built :
        LET pre == tls[id].parsed
            post == tls[id].equalized
            textual == {k \in 1..Len(pre) : Textual(pre[k])}
        IN \A k \in 1..Len(pre) :
              IF k \in textual
              THEN post[k].height = SetMax({pre[j].height : j \in textual})
              ELSE /\ post[k].height = pre[k].height
                   /\ post[k].width = pre[k].width

\* C5 witness: two items with text of different heights before the pass
C5_Witness ==
    \E id \in Built : \E j, k \in 1..Len(tls[id].parsed) :
        /\ Textual(tls[id].parsed[j]) /\ Textual(tls[id].parsed[k])
        /\ tls[id].parsed[j].height < tls[id].parsed[k].height
        /\ tls[id].equalized[j].height = tls[id].parsed[k].height

\* C6: for left and right the rotation pass swaps width and height of every
\* item with text; for up and down, and for items without text, it changes
\* neither.
C6_Rotation ==
    \A id \in Built :
        LET pre == tls[id].equalized
            post == tls[id].items
        IN \A k \in 1..Len(pre) :
              IF tls[id].direction \in {"left", "right"} /\ Textual(pre[k])
              THEN <<post[k].width, post[k].height>>
                      = <<pre[k].height, pre[k].width>>
              ELSE (tls[id].direction \in Directions \/ ~Textual(pre[k]))
                      => <<post[k].width, post[k].height>>
                            = <<pre[k].width, pre[k].height>>

\* C6 witness: a left-running Timeline with a text item wider than high
\* after the pass, and an up-running one
C6_Witness ==
    \E id \in Built : \E k \in 1..Len(tls[id].items) :
        /\ tls[id].direction = "left"
        /\ Textual(tls[id].items[k])
        /\ tls[id].equalized[k].width < tls[id].equalized[k].height
        /\ tls[id].items[k].width > tls[id].items[k].height

\* C7: when the option of a style channel is a list of n >= 1 elements, the
\* accessor of that channel returns the element at i mod n for every item
\* data and index i >= 0, by the list branch.
C7_ListCycles ==
    last.op = "color" =>
        LET opt == tls[last.tl].colors[last.channel]
        IN (opt.kind = "list" /\ Len(opt.vals) >= 1) =>
              /\ last.outcome = "return"
              /\ last.via = "list"
              /\ last.color = opt.vals[(last.index % Len(opt.vals)) + 1]

\* C7 witness: a three-element list and index 4 give the element at index 1
C7_Witness ==
    /\ last.op = "color"
    /\ last.channel = "borderColor"
    /\ tls[last.tl].colors[last.channel] = List(<<"red", "green", "blue">>)
    /\ last.index = 4
    /\ last.color = "green"

\* C8: get_nodes gives one node per item, in item order; node.width is the
\* item's width plus left and right padding for every direction; (w, h) is
\* (width + left + right, height + top + bottom) for up and down and that
\* pair swapped for left and right.
C8_GetNodes ==
    last.op = "get_nodes" =>
        LET t == tls[last.tl]
            ns == last.nodes
        IN /\ Len(ns) = Len(t.items)
           /\ \A k \in 1..Len(ns) :
                LET pw == t.items[k].width + PadLeft + PadRight
                    ph == t.items[k].height + PadTop + PadBottom
                IN /\ ns[k].data = k
                   /\ ns[k].width = pw
                   /\ t.direction \in {"up", "down"}
                         => <<ns[k].w, ns[k].h>> = <<pw, ph>>
                   /\ t.direction \in {"left", "right"}
                         => <<ns[k].w, ns[k].h>> = <<ph, pw>>

\* C8 witness: get_nodes on a left-running Timeline with two items, one of
\* them with padded width and height that differ
C8_Witness ==
    /\ last.op = "get_nodes"
    /\ tls[last.tl].direction = "left"
    /\ Len(last.nodes) = 2
    /\ \E k \in 1..2 : last.nodes[k].w # last.nodes[k].h

\* C9: a record whose time is a full datetime keeps it: the Item's time is
\* the record's original value, time of day included, and the record's time
\* field is not rewritten.
C9_DatetimeKept ==
    \A id \in Built : \A k \in 1..Len(tls[id].input) :
        tls[id].input[k].time.kind = "datetime" =>
            /\ tls[id].items[k].time = tls[id].input[k].time
            /\ tls[id].dicts[k].time = tls[id].input[k].time

\* C10: the direction in the resolver options of every compute() and
\* forceCompute() call is the direction the called Timeline was built with.
C10_ResolverDirection ==
    last.op \in {"compute", "forceCompute"} =>
        last.resolverDir = tls[last.tl].direction

=============================================================================
